---------------------------- MODULE Spec2Model ----------------------------
(***************************************************************************)
(* Contacts manager (src/src/main.rs): the record validator Contact::new,  *)
(* the in-memory collection (add / remove / find) and the durable store    *)
(* protocol Store::open / Store::save run by concurrent command            *)
(* invocations that share one backing path.                                *)
(*                                                                         *)
(* Strings are sequences of character codes.  A code below 128 takes one   *)
(* byte in UTF-8, a code from 128 on takes two (only codes below 2048 are  *)
(* used).  File contents are sequences of JSON tokens.                     *)
(***************************************************************************)
EXTENDS Integers, Sequences, FiniteSets, TLC

(***************************************************************************)
(* Bounds of the model.                                                    *)
(***************************************************************************)
NumProcs == 2       \* command invocations alive at the same time
MaxRuns == 2        \* command invocations started in one behaviour of Spec

(***************************************************************************)
(* Program constants.                                                      *)
(***************************************************************************)
NameMax == 200
EmailMax == 320
PhoneMax == 50

Procs == 1..NumProcs

(***************************************************************************)
(* Strings.                                                                *)
(***************************************************************************)
\* character codes: ' ', 'A', 'a', 'b', 'x', '@', '1', and e-acute, which
\* takes two bytes in UTF-8
Ch == [sp |-> 32, A |-> 65, a |-> 97, b |-> 98, x |-> 120, at |-> 64,
       one |-> 49, eacute |-> 233, B |-> 66]

Rep(n, c) == [i \in 1..n |-> c]

SetMin(S) == CHOOSE m \in S : \A k \in S : m <= k
SetMax(S) == CHOOSE m \in S : \A k \in S : m >= k

\* char::is_whitespace, on the codes the model uses
IsWhitespace(c) == c \in {9, 10, 13, Ch.sp}

\* str::len: the length in bytes of the UTF-8 encoding
StrLen(s) == Len(s) + Cardinality({i \in DOMAIN s : s[i] >= 128})

\* str::trim: strip leading and trailing whitespace
Trim(s) ==
    LET keep == {i \in DOMAIN s : ~IsWhitespace(s[i])}
    IN  IF keep = {} THEN <<>> ELSE SubSeq(s, SetMin(keep), SetMax(keep))

(***************************************************************************)
(* Contact and Contact::new.  An Option<String> is [some, v].              *)
(***************************************************************************)
None == [some |-> FALSE, v |-> <<>>]
Some(s) == [some |-> TRUE, v |-> s]

MkContact(id, name, email, phone) ==
    [id |-> id, name |-> name, email |-> email, phone |-> phone]

NoContact == MkContact(<<>>, <<>>, <<>>, None)

\* Uuid::new_v4().to_string(): the n-th identifier drawn, as a string
UuidString(n) == <<n>>

\* Contact::new; uuid is the identifier Uuid::new_v4 draws in this call
ContactNew(name, email, phone, uuid) ==
    IF Trim(name) = <<>> \/ Trim(email) = <<>>
      THEN [ok |-> FALSE, c |-> NoContact]
    ELSE IF StrLen(name) > NameMax
      THEN [ok |-> FALSE, c |-> NoContact]
    ELSE IF StrLen(email) > EmailMax
      THEN [ok |-> FALSE, c |-> NoContact]
    ELSE IF phone.some /\ StrLen(phone.v) > PhoneMax
      THEN [ok |-> FALSE, c |-> NoContact]
    ELSE [ok |-> TRUE,
          c |-> MkContact(uuid, Trim(name), Trim(email),
                          IF phone.some THEN Some(Trim(phone.v)) ELSE None)]

(***************************************************************************)
(* The collection: Store::add, Store::remove.                              *)
(***************************************************************************)
\* faulty variant: only the first record with the identifier is dropped
Retain_FirstOnly(cs, id) ==
    LET hits == {i \in DOMAIN cs : cs[i].id = id}
    IN  IF hits = {} THEN cs
        ELSE SubSeq(cs, 1, SetMin(hits) - 1) \o SubSeq(cs, SetMin(hits) + 1, Len(cs))

\* Vec::retain(|c| c.id != id)
RECURSIVE Retain(_, _)
Retain(cs, id) ==
    IF cs = <<>> THEN <<>>
    ELSE IF Head(cs).id # id THEN <<Head(cs)>> \o Retain(Tail(cs), id)
    ELSE Retain(Tail(cs), id)

\* faulty variant: the record is pushed twice
StoreAdd_Twice(cs, c) == Append(Append(cs, c), c)

\* Store::add
StoreAdd(cs, c) == Append(cs, c)

\* Store::remove: the collection afterwards and the returned flag
StoreRemove(cs, id) ==
    LET after == Retain(cs, id)
    IN  [contacts |-> after, removed |-> Len(cs) # Len(after)]

(***************************************************************************)
(* JSON.  A file content is a sequence of tokens [t, k, v]: t the kind     *)
(* ("[", "]", "{", "}", "str", "null"), k the object key of a member       *)
(* value, v the characters of a string value.                              *)
(***************************************************************************)
Tok(t) == [t |-> t, k |-> "", v |-> <<>>]
StrMember(k, s) == [t |-> "str", k |-> k, v |-> s]
NullMember(k) == [t |-> "null", k |-> k, v |-> <<>>]

\* faulty variant: the phone is never written
SerializeContact_SkipsPhone(c) ==
    << Tok("{"),
       StrMember("id", c.id),
       StrMember("name", c.name),
       StrMember("email", c.email),
       NullMember("phone"),
       Tok("}") >>

\* #[derive(Serialize)] for Contact
SerializeContact(c) ==
    << Tok("{"),
       StrMember("id", c.id),
       StrMember("name", c.name),
       StrMember("email", c.email),
       IF c.phone.some THEN StrMember("phone", c.phone.v) ELSE NullMember("phone"),
       Tok("}") >>

RECURSIVE SerializeElems(_)
SerializeElems(cs) ==
    IF cs = <<>> THEN <<>>
    ELSE SerializeContact(Head(cs)) \o SerializeElems(Tail(cs))

\* serde_json::to_vec_pretty(&self.contacts)
Serialize(cs) == <<Tok("[")>> \o SerializeElems(cs) \o <<Tok("]")>>

\* #[derive(Deserialize)] for Contact, on the six tokens of one object
IsContactAt(ts, i) ==
    /\ i + 5 <= Len(ts)
    /\ ts[i].t = "{"
    /\ ts[i+1].t = "str" /\ ts[i+1].k = "id"
    /\ ts[i+2].t = "str" /\ ts[i+2].k = "name"
    /\ ts[i+3].t = "str" /\ ts[i+3].k = "email"
    /\ ts[i+4].t \in {"str", "null"} /\ ts[i+4].k = "phone"
    /\ ts[i+5].t = "}"

ContactAt(ts, i) ==
    MkContact(ts[i+1].v, ts[i+2].v, ts[i+3].v,
              IF ts[i+4].t = "str" THEN Some(ts[i+4].v) ELSE None)

RECURSIVE ParseElems(_, _, _)
ParseElems(ts, i, acc) ==
    IF i > Len(ts) THEN [ok |-> FALSE, contacts |-> <<>>]
    ELSE IF ts[i].t = "]"
      THEN [ok |-> i = Len(ts), contacts |-> IF i = Len(ts) THEN acc ELSE <<>>]
    ELSE IF IsContactAt(ts, i)
      THEN ParseElems(ts, i + 6, Append(acc, ContactAt(ts, i)))
    ELSE [ok |-> FALSE, contacts |-> <<>>]

\* serde_json::from_str::<Vec<Contact>>(&buf)
Parse(ts) ==
    IF ts = <<>> \/ ts[1].t # "[" THEN [ok |-> FALSE, contacts |-> <<>>]
    ELSE ParseElems(ts, 2, <<>>)


(***************************************************************************)
(* The file system: one directory holding the canonical path and the       *)
(* temporary files.  An inode is [content, mode, snap, coll, synced].      *)
(* snap and coll are history fields: snap is the content the inode had     *)
(* when it was committed under the canonical path (by a rename, or as the  *)
(* file that was there from the start), coll the collection serialized     *)
(* into it.  synced tells whether the content is on stable storage.        *)
(* A mode is the set of permission bits it grants.                         *)
(***************************************************************************)
Mode0666 == {"ur", "uw", "gr", "gw", "or", "ow"}
Mode0644 == {"ur", "uw", "gr", "or"}
Mode0600 == {"ur", "uw"}
\* the file mode creation mask of the invocations: 022, the usual default
Umask == {"gw", "ow"}

NoIno == 0
NoInodes == [i \in {} |-> 0]
NoSnap == [some |-> FALSE, content |-> <<>>]
NoColl == [some |-> FALSE, contacts |-> <<>>]
NoPre == [exists |-> FALSE, content |-> <<>>, replaced |-> FALSE,
          hadTmp |-> FALSE]

VARIABLES
    path,       \* inode under the canonical path, NoIno when absent
    inodes,     \* inode number -> inode, for the inodes still referenced
    leaked,     \* temporary files that killed invocations left behind
    pc,         \* position of each invocation
    contacts,   \* Store.contacts of each invocation
    fd,         \* inode of the File an invocation holds open, or NoIno
    lock,       \* lock held through that File: "none", "sh", "ex"
    buf,        \* buf of Store::open
    tmp,        \* inode of the NamedTempFile of Store::save, or NoIno
    nextId,     \* number of identifiers Uuid::new_v4 has drawn
    runs,       \* invocations started so far
    pre,        \* history: the canonical path when this save was entered,
                \* and whether the save had its temp file when it failed
    call,       \* arguments of a call of a pure function
    ret         \* its result

fsvars == <<path, inodes, leaked>>
vars == <<path, inodes, leaked, pc, contacts, fd, lock, buf, tmp,
          nextId, runs, pre, call, ret>>

OpenPcs == {"open", "o_open", "o_lock", "o_read", "o_parse"}
SavePcs == {"s_mkdir", "s_open", "s_lock", "s_drop", "s_tmp", "s_write",
            "s_flush", "s_chmod", "s_sync", "s_rename"}
EndPcs == {"done", "saved", "err_open", "err_valid", "err_save",
           "killed", "killed_save"}

\* the kernel frees an inode once it has no name and no open handle
\* (the temporary file of a running save has a name; one that a killed
\* invocation left behind is opened by nobody and only counted, in leaked)
Referenced(pathN, tmpN, fdN) ==
    ({pathN} \cup {tmpN[p] : p \in Procs} \cup {fdN[p] : p \in Procs}) \ {NoIno}

Gc(ino, pathN, tmpN, fdN) ==
    [i \in DOMAIN ino \cap Referenced(pathN, tmpN, fdN) |-> ino[i]]

NewIno == SetMin((1..(Cardinality(DOMAIN inodes) + 1)) \ DOMAIN inodes)

\* synced: the content has reached stable storage; a file made by
\* create or by NamedTempFile has not, the file the store starts with has
MkInode(content, mode, snap, coll) ==
    [content |-> content, mode |-> mode, snap |-> snap, coll |-> coll,
     synced |-> snap.some]

(***************************************************************************)
(* Inputs.                                                                 *)
(***************************************************************************)
Str(a, b) == <<a, b>>
InitContact == MkContact(UuidString(0), Str(Ch.A, Ch.a), Str(Ch.a, Ch.at), None)

\* what the backing file holds before the first invocation
InitFiles ==
    { [exists |-> FALSE, content |-> <<>>],
      [exists |-> TRUE, content |-> Serialize(<<InitContact>>)],
      [exists |-> TRUE, content |-> <<Tok("["), Tok("{")>>] }

\* command line arguments of `add`
AddInputs ==
    { [name |-> <<Ch.sp, Ch.b>>, email |-> <<Ch.b, Ch.at, Ch.sp>>,
       phone |-> Some(<<Ch.one, Ch.sp>>)],
      [name |-> <<Ch.sp>>, email |-> <<Ch.a, Ch.at>>, phone |-> None] }

\* command line argument of `remove`: an identifier of the collection or one
\* that no record has
RemoveIds(cs) == {cs[i].id : i \in DOMAIN cs} \cup {<<Ch.x>>}

NoCall == [fn |-> "none"]

Init ==
    /\ \E f \in InitFiles :
         IF f.exists
           THEN /\ path = 1
                /\ inodes = (1 :> MkInode(f.content, Mode0644,
                                          [some |-> TRUE, content |-> f.content],
                                          NoColl))
           ELSE /\ path = NoIno
                /\ inodes = NoInodes
    /\ leaked = 0
    /\ pc = [p \in Procs |-> "idle"]
    /\ contacts = [p \in Procs |-> <<>>]
    /\ fd = [p \in Procs |-> NoIno]
    /\ lock = [p \in Procs |-> "none"]
    /\ buf = [p \in Procs |-> <<>>]
    /\ tmp = [p \in Procs |-> NoIno]
    /\ nextId = 1
    /\ runs = 0
    /\ pre = [p \in Procs |-> NoPre]
    /\ call = NoCall
    /\ ret = NoCall


(***************************************************************************)
(* main: one command invocation.                                           *)
(***************************************************************************)
\* main, up to the call of Store::open
Start(p) ==
    /\ pc[p] = "idle"
    /\ runs < MaxRuns
    /\ runs' = runs + 1
    /\ pc' = [pc EXCEPT ![p] = "open"]
    /\ UNCHANGED <<fsvars, contacts, fd, lock, buf, tmp, nextId, pre,
                   call, ret>>

(***************************************************************************)
(* Store::open                                                             *)
(***************************************************************************)
\* path.exists()
OpenExists(p) ==
    /\ pc[p] = "open"
    /\ IF path # NoIno
         THEN /\ pc' = [pc EXCEPT ![p] = "o_open"]
              /\ UNCHANGED contacts
         ELSE /\ pc' = [pc EXCEPT ![p] = "dispatch"]
              /\ contacts' = [contacts EXCEPT ![p] = <<>>]
    /\ UNCHANGED <<fsvars, fd, lock, buf, tmp, nextId, runs, pre,
                   call, ret>>

\* OpenOptions::new().read(true).open(&path)
OpenFile(p) ==
    /\ pc[p] = "o_open"
    /\ IF path # NoIno
         THEN /\ fd' = [fd EXCEPT ![p] = path]
              /\ pc' = [pc EXCEPT ![p] = "o_lock"]
         ELSE /\ pc' = [pc EXCEPT ![p] = "err_open"]
              /\ UNCHANGED fd
    /\ UNCHANGED <<fsvars, contacts, lock, buf, tmp, nextId, runs, pre,
                   call, ret>>

\* file.lock_shared(): blocks while another handle holds the exclusive lock
\* of the same file
OpenLock(p) ==
    /\ pc[p] = "o_lock"
    /\ \A q \in Procs \ {p} : ~(fd[q] = fd[p] /\ lock[q] = "ex")
    /\ lock' = [lock EXCEPT ![p] = "sh"]
    /\ pc' = [pc EXCEPT ![p] = "o_read"]
    /\ UNCHANGED <<fsvars, contacts, fd, buf, tmp, nextId, runs, pre,
                   call, ret>>

\* reader.read_to_string(&mut buf)
OpenRead(p) ==
    /\ pc[p] = "o_read"
    /\ buf' = [buf EXCEPT ![p] = inodes[fd[p]].content]
    /\ pc' = [pc EXCEPT ![p] = "o_parse"]
    /\ UNCHANGED <<fsvars, contacts, fd, lock, tmp, nextId, runs, pre,
                   call, ret>>

\* faulty variant: a content that does not parse is taken for an empty store
OpenParse_DefaultOnError(p) ==
    /\ pc[p] = "o_parse"
    /\ LET r == Parse(buf[p])
           fdN == [fd EXCEPT ![p] = NoIno]
       IN  /\ contacts' = [contacts EXCEPT ![p] = IF r.ok THEN r.contacts ELSE <<>>]
           /\ pc' = [pc EXCEPT ![p] = "dispatch"]
           /\ fd' = fdN
           /\ inodes' = Gc(inodes, path, tmp, fdN)
    /\ lock' = [lock EXCEPT ![p] = "none"]
    /\ buf' = [buf EXCEPT ![p] = <<>>]
    /\ UNCHANGED <<path, leaked, tmp, nextId, runs, pre, call, ret>>

\* serde_json::from_str(&buf), then the File goes out of scope: the handle is
\* closed and its lock released, on the error return as well
OpenParse(p) ==
    /\ pc[p] = "o_parse"
    /\ LET r == Parse(buf[p])
           fdN == [fd EXCEPT ![p] = NoIno]
       IN  /\ IF r.ok
                THEN /\ contacts' = [contacts EXCEPT ![p] = r.contacts]
                     /\ pc' = [pc EXCEPT ![p] = "dispatch"]
                ELSE /\ pc' = [pc EXCEPT ![p] = "err_open"]
                     /\ UNCHANGED contacts
           /\ fd' = fdN
           /\ inodes' = Gc(inodes, path, tmp, fdN)
    /\ lock' = [lock EXCEPT ![p] = "none"]
    /\ buf' = [buf EXCEPT ![p] = <<>>]
    /\ UNCHANGED <<path, leaked, tmp, nextId, runs, pre, call, ret>>

\* faulty variant: the error return leaves the File open and locked
OpenFail_LeaksHandle(p) ==
    /\ pc[p] \in {"o_open", "o_lock", "o_read"}
    /\ pc' = [pc EXCEPT ![p] = "err_open"]
    /\ UNCHANGED <<fsvars, contacts, fd, lock, buf, tmp, nextId, runs, pre,
                   call, ret>>

\* the open, the lock or the read returns an I/O error: `?` returns it and
\* drops the File
OpenFail(p) ==
    /\ pc[p] \in {"o_open", "o_lock", "o_read"}
    /\ LET fdN == [fd EXCEPT ![p] = NoIno]
       IN  /\ fd' = fdN
           /\ inodes' = Gc(inodes, path, tmp, fdN)
    /\ lock' = [lock EXCEPT ![p] = "none"]
    /\ pc' = [pc EXCEPT ![p] = "err_open"]
    /\ UNCHANGED <<path, leaked, contacts, buf, tmp, nextId, runs, pre,
                   call, ret>>

(***************************************************************************)
(* main: the command.                                                      *)
(***************************************************************************)
\* main returns, or the process dies: its Store is dropped
Dropped(p) == [contacts EXCEPT ![p] = <<>>]

\* the canonical path as Store::save finds it on entry
PreOf(p) ==
    IF path = NoIno THEN NoPre
    ELSE [exists |-> TRUE, content |-> inodes[path].content, replaced |-> FALSE,
          hadTmp |-> FALSE]

\* faulty variant: the new record is added to an empty Store, not to the
\* one that was loaded
CmdAdd_FreshStore(p) ==
    /\ pc[p] = "dispatch"
    /\ \E in \in AddInputs :
         LET r == ContactNew(in.name, in.email, in.phone, UuidString(nextId))
         IN  IF r.ok
               THEN /\ contacts' = [contacts EXCEPT ![p] = StoreAdd(<<>>, r.c)]
                    /\ nextId' = nextId + 1
                    /\ pc' = [pc EXCEPT ![p] = "s_mkdir"]
                    /\ pre' = [pre EXCEPT ![p] = PreOf(p)]
               ELSE /\ pc' = [pc EXCEPT ![p] = "err_valid"]
                    /\ contacts' = Dropped(p)
                    /\ UNCHANGED <<nextId, pre>>
    /\ UNCHANGED <<fsvars, fd, lock, buf, tmp, runs, call, ret>>

\* Commands::Add
CmdAdd(p) ==
    /\ pc[p] = "dispatch"
    /\ \E in \in AddInputs :
         LET r == ContactNew(in.name, in.email, in.phone, UuidString(nextId))
         IN  IF r.ok
               THEN /\ contacts' = [contacts EXCEPT ![p] = StoreAdd(contacts[p], r.c)]
                    /\ nextId' = nextId + 1
                    /\ pc' = [pc EXCEPT ![p] = "s_mkdir"]
                    /\ pre' = [pre EXCEPT ![p] = PreOf(p)]
               ELSE /\ pc' = [pc EXCEPT ![p] = "err_valid"]
                    /\ contacts' = Dropped(p)
                    /\ UNCHANGED <<nextId, pre>>
    /\ UNCHANGED <<fsvars, fd, lock, buf, tmp, runs, call, ret>>

\* faulty variant: remove saves whether or not a record was removed
CmdRemove_AlwaysSaves(p) ==
    /\ pc[p] = "dispatch"
    /\ \E id \in RemoveIds(contacts[p]) :
         LET r == StoreRemove(contacts[p], id)
         IN  /\ contacts' = [contacts EXCEPT ![p] = r.contacts]
             /\ pc' = [pc EXCEPT ![p] = "s_mkdir"]
             /\ pre' = [pre EXCEPT ![p] = PreOf(p)]
    /\ UNCHANGED <<fsvars, fd, lock, buf, tmp, nextId, runs, call, ret>>

\* Commands::Remove
CmdRemove(p) ==
    /\ pc[p] = "dispatch"
    /\ \E id \in RemoveIds(contacts[p]) :
         LET r == StoreRemove(contacts[p], id)
         IN  IF r.removed
               THEN /\ contacts' = [contacts EXCEPT ![p] = r.contacts]
                    /\ pc' = [pc EXCEPT ![p] = "s_mkdir"]
                    /\ pre' = [pre EXCEPT ![p] = PreOf(p)]
               ELSE /\ contacts' = Dropped(p)
                    /\ pc' = [pc EXCEPT ![p] = "done"]
                    /\ UNCHANGED pre
    /\ UNCHANGED <<fsvars, fd, lock, buf, tmp, nextId, runs, call, ret>>

\* Commands::List
CmdList(p) ==
    /\ pc[p] = "dispatch"
    /\ pc' = [pc EXCEPT ![p] = "done"]
    /\ contacts' = Dropped(p)
    /\ UNCHANGED <<fsvars, fd, lock, buf, tmp, nextId, runs, pre, call,
                   ret>>


\* Greek character codes: capital alpha and sigma, small alpha, final sigma
\* and sigma
Gr == [Alpha |-> 913, Sigma |-> 931, alpha |-> 945, fsigma |-> 962,
       sigma |-> 963]

\* capital letters, on the codes the model uses (Latin and Greek)
IsUpper(c) == c \in (65..90) \cup (913..929) \cup (931..937)

\* letters that have a case
IsCased(c) ==
    IsUpper(c) \/ c \in (97..122) \cup {Ch.eacute} \cup (945..969)

\* char::to_lowercase of a capital other than sigma
LowerChar(c) == IF IsUpper(c) THEN c + 32 ELSE c

\* str::to_lowercase, on the codes the model uses: a capital sigma becomes
\* the final sigma when a cased letter precedes it and none follows it, the
\* ordinary small sigma otherwise (none of the codes is case-ignorable)
ToLowercase(s) ==
    [i \in DOMAIN s |->
       IF s[i] = Gr.Sigma
         THEN IF /\ i > 1 /\ IsCased(s[i-1])
                 /\ ~(i < Len(s) /\ IsCased(s[i+1]))
                THEN Gr.fsigma ELSE Gr.sigma
       ELSE LowerChar(s[i])]

\* str::contains
Contains(s, q) ==
    \E i \in 0..(Len(s) - Len(q)) : SubSeq(s, i + 1, i + Len(q)) = q

RECURSIVE Filter(_, _)
Filter(cs, q) ==
    IF cs = <<>> THEN <<>>
    ELSE IF \/ Contains(ToLowercase(Head(cs).name), q)
            \/ Contains(ToLowercase(Head(cs).email), q)
      THEN <<Head(cs)>> \o Filter(Tail(cs), q)
    ELSE Filter(Tail(cs), q)

\* Store::find
StoreFind(cs, q) == Filter(cs, ToLowercase(q))

\* command line argument of `find`
Queries == {<<>>, <<Ch.A>>, <<Ch.at>>, <<Ch.one>>}

\* Commands::Find: the matches are printed, nothing is saved
CmdFind(p) ==
    /\ pc[p] = "dispatch"
    /\ \E q \in Queries : Len(StoreFind(contacts[p], q)) <= Len(contacts[p])
    /\ pc' = [pc EXCEPT ![p] = "done"]
    /\ contacts' = Dropped(p)
    /\ UNCHANGED <<fsvars, fd, lock, buf, tmp, nextId, runs, pre, call,
                   ret>>

(***************************************************************************)
(* Store::save                                                             *)
(***************************************************************************)
\* 1. fs::create_dir_all(parent): the directory of the path exists
SaveMkdir(p) ==
    /\ pc[p] = "s_mkdir"
    /\ pc' = [pc EXCEPT ![p] = "s_open"]
    /\ UNCHANGED <<fsvars, contacts, fd, lock, buf, tmp, nextId, runs,
                   pre, call, ret>>

\* the inode OpenOptions.create(true) makes where the path has none
CreatedInode == MkInode(<<>>, Mode0666 \ Umask, NoSnap, NoColl)

\* faulty variant: the target is opened with truncate(true)
SaveOpen_Truncating(p) ==
    /\ pc[p] = "s_open"
    /\ IF path = NoIno
         THEN LET n == NewIno
              IN  /\ path' = n
                  /\ inodes' = [i \in DOMAIN inodes \cup {n} |->
                                  IF i = n THEN CreatedInode ELSE inodes[i]]
                  /\ fd' = [fd EXCEPT ![p] = n]
         ELSE /\ fd' = [fd EXCEPT ![p] = path]
              /\ inodes' = [inodes EXCEPT ![path] = [@ EXCEPT !.content = <<>>]]
              /\ UNCHANGED path
    /\ pc' = [pc EXCEPT ![p] = "s_lock"]
    /\ UNCHANGED <<leaked, contacts, lock, buf, tmp, nextId, runs, pre,
                   call, ret>>

\* 2. OpenOptions::new().read(true).write(true).create(true).open(&self.path)
SaveOpen(p) ==
    /\ pc[p] = "s_open"
    /\ IF path = NoIno
         THEN LET n == NewIno
              IN  /\ path' = n
                  /\ inodes' = [i \in DOMAIN inodes \cup {n} |->
                                  IF i = n THEN CreatedInode ELSE inodes[i]]
                  /\ fd' = [fd EXCEPT ![p] = n]
         ELSE /\ fd' = [fd EXCEPT ![p] = path]
              /\ UNCHANGED <<path, inodes>>
    /\ pc' = [pc EXCEPT ![p] = "s_lock"]
    /\ UNCHANGED <<leaked, contacts, lock, buf, tmp, nextId, runs, pre,
                   call, ret>>

\* 3. target_file.lock_exclusive(): blocks while another handle holds any
\* lock of the same file
SaveLock(p) ==
    /\ pc[p] = "s_lock"
    /\ \A q \in Procs \ {p} : ~(fd[q] = fd[p] /\ lock[q] # "none")
    /\ lock' = [lock EXCEPT ![p] = "ex"]
    /\ pc' = [pc EXCEPT ![p] = "s_drop"]
    /\ UNCHANGED <<fsvars, contacts, fd, buf, tmp, nextId, runs, pre,
                   call, ret>>

\* faulty variant: the handle stays open and keeps the lock
SaveDrop_KeepsLock(p) ==
    /\ pc[p] = "s_drop"
    /\ pc' = [pc EXCEPT ![p] = "s_tmp"]
    /\ UNCHANGED <<fsvars, contacts, fd, lock, buf, tmp, nextId, runs, pre,
                   call, ret>>

\* 4. drop(target_file): closes the handle, which releases the lock
SaveDrop(p) ==
    /\ pc[p] = "s_drop"
    /\ LET fdN == [fd EXCEPT ![p] = NoIno]
       IN  /\ fd' = fdN
           /\ inodes' = Gc(inodes, path, tmp, fdN)
    /\ lock' = [lock EXCEPT ![p] = "none"]
    /\ pc' = [pc EXCEPT ![p] = "s_tmp"]
    /\ UNCHANGED <<path, leaked, contacts, buf, tmp, nextId, runs, pre,
                   call, ret>>

\* the mode NamedTempFile::new_in gives the file it creates: owner read/write
TmpMode == Mode0600 \ Umask

\* faulty variant: the temporary file has one fixed name, so a save that
\* finds the temporary file of another save opens and truncates that file
SaveTmp_FixedName(p) ==
    /\ pc[p] = "s_tmp"
    /\ LET others == {tmp[q] : q \in Procs \ {p}} \ {NoIno}
           n == IF others = {} THEN NewIno ELSE SetMin(others)
       IN  /\ inodes' = [i \in DOMAIN inodes \cup {n} |->
                           IF i = n THEN MkInode(<<>>, TmpMode, NoSnap, NoColl)
                           ELSE inodes[i]]
           /\ tmp' = [tmp EXCEPT ![p] = n]
    /\ pc' = [pc EXCEPT ![p] = "s_write"]
    /\ UNCHANGED <<path, leaked, contacts, fd, lock, buf, nextId, runs,
                   pre, call, ret>>

\* 5. NamedTempFile::new_in(&parent)
SaveTmp(p) ==
    /\ pc[p] = "s_tmp"
    /\ LET n == NewIno
       IN  /\ inodes' = [i \in DOMAIN inodes \cup {n} |->
                           IF i = n THEN MkInode(<<>>, TmpMode, NoSnap, NoColl)
                           ELSE inodes[i]]
           /\ tmp' = [tmp EXCEPT ![p] = n]
    /\ pc' = [pc EXCEPT ![p] = "s_write"]
    /\ UNCHANGED <<path, leaked, contacts, fd, lock, buf, nextId, runs,
                   pre, call, ret>>

\* 6, 7. serde_json::to_vec_pretty(&self.contacts), tmp.write_all(&j)
SaveWrite(p) ==
    /\ pc[p] = "s_write"
    /\ inodes' = [inodes EXCEPT ![tmp[p]] =
                    [@ EXCEPT !.content = Serialize(contacts[p]),
                              !.coll = [some |-> TRUE, contacts |-> contacts[p]],
                              !.synced = FALSE]]
    /\ pc' = [pc EXCEPT ![p] = "s_flush"]
    /\ UNCHANGED <<path, leaked, contacts, fd, lock, buf, tmp, nextId,
                   runs, pre, call, ret>>

\* 8. tmp.flush(): a File has no buffer of its own
SaveFlush(p) ==
    /\ pc[p] = "s_flush"
    /\ pc' = [pc EXCEPT ![p] = "s_chmod"]
    /\ UNCHANGED <<fsvars, contacts, fd, lock, buf, tmp, nextId, runs,
                   pre, call, ret>>

\* 9. fs::set_permissions(tmp.path(), Permissions::from_mode(0o600))
SaveChmod(p) ==
    /\ pc[p] = "s_chmod"
    /\ inodes' = [inodes EXCEPT ![tmp[p]] = [@ EXCEPT !.mode = Mode0600]]
    /\ pc' = [pc EXCEPT ![p] = "s_sync"]
    /\ UNCHANGED <<path, leaked, contacts, fd, lock, buf, tmp, nextId,
                   runs, pre, call, ret>>

\* faulty variant: the temporary file is not synced
SaveSync_Skipped(p) ==
    /\ pc[p] = "s_sync"
    /\ pc' = [pc EXCEPT ![p] = "s_rename"]
    /\ UNCHANGED <<fsvars, contacts, fd, lock, buf, tmp, nextId, runs,
                   pre, call, ret>>

\* 10. tmp.as_file().sync_all()
SaveSync(p) ==
    /\ pc[p] = "s_sync"
    /\ inodes' = [inodes EXCEPT ![tmp[p]] = [@ EXCEPT !.synced = TRUE]]
    /\ pc' = [pc EXCEPT ![p] = "s_rename"]
    /\ UNCHANGED <<path, leaked, contacts, fd, lock, buf, tmp, nextId,
                   runs, pre, call, ret>>

\* history: a rename by p replaces the file the other saves, running or
\* failed, were entered on
Replaced(p) ==
    [q \in Procs |->
       IF q = p THEN NoPre
       ELSE IF pc[q] \in SavePcs \cup {"err_save"} /\ pre[q].exists
         THEN [pre[q] EXCEPT !.content = <<>>, !.replaced = TRUE]
       ELSE pre[q]]

\* faulty variant: the new content is copied into the file under the path
\* where there is one, and the temporary file removed
SaveRename_CopiesInPlace(p) ==
    /\ pc[p] = "s_rename"
    /\ LET n == tmp[p]
           tmpN == [tmp EXCEPT ![p] = NoIno]
           target == IF path = NoIno THEN n ELSE path
           copied == [inodes EXCEPT ![target] =
                        [@ EXCEPT !.content = inodes[n].content,
                                  !.coll = inodes[n].coll,
                                  !.snap = [some |-> TRUE, content |-> inodes[n].content]]]
       IN  /\ path' = target
           /\ tmp' = tmpN
           /\ inodes' = Gc(copied, target, tmpN, fd)
    /\ pre' = Replaced(p)
    /\ pc' = [pc EXCEPT ![p] = "saved"]
    /\ contacts' = Dropped(p)
    /\ UNCHANGED <<leaked, fd, lock, buf, nextId, runs, call, ret>>

\* 11. tmp.persist(&self.path): rename(2) of the temporary name onto the path
SaveRename(p) ==
    /\ pc[p] = "s_rename"
    /\ LET n == tmp[p]
           tmpN == [tmp EXCEPT ![p] = NoIno]
           committed == [inodes EXCEPT ![n] =
                           [@ EXCEPT !.snap = [some |-> TRUE,
                                               content |-> inodes[n].content]]]
       IN  /\ path' = n
           /\ tmp' = tmpN
           /\ inodes' = Gc(committed, n, tmpN, fd)
    /\ pre' = Replaced(p)
    /\ pc' = [pc EXCEPT ![p] = "saved"]
    /\ contacts' = Dropped(p)
    /\ UNCHANGED <<leaked, fd, lock, buf, nextId, runs, call, ret>>

\* faulty variant: the NamedTempFile is kept on disk
DropLocals_KeepsTmp(p) ==
    LET fdN == [fd EXCEPT ![p] = NoIno]
    IN  /\ fd' = fdN
        /\ tmp' = tmp
        /\ inodes' = Gc(inodes, path, tmp, fdN)
        /\ lock' = [lock EXCEPT ![p] = "none"]

\* what dropping the locals of Store::save leaves: the target handle closed
\* and its lock released, the NamedTempFile deleted
DropLocals(p) ==
    LET fdN == [fd EXCEPT ![p] = NoIno]
        tmpN == [tmp EXCEPT ![p] = NoIno]
    IN  /\ fd' = fdN
        /\ tmp' = tmpN
        /\ inodes' = Gc(inodes, path, tmpN, fdN)
        /\ lock' = [lock EXCEPT ![p] = "none"]

\* a step of Store::save returns an error: `?` returns it
SaveFail(p) ==
    /\ pc[p] \in SavePcs \ {"s_drop"}
    /\ DropLocals(p)
    /\ pc' = [pc EXCEPT ![p] = "err_save"]
    /\ contacts' = Dropped(p)
    /\ pre' = [pre EXCEPT ![p].hadTmp = tmp[p] # NoIno]
    /\ UNCHANGED <<path, leaked, buf, nextId, runs, call, ret>>

(***************************************************************************)
(* The process is killed: the kernel closes its handles, which releases    *)
(* its lock; nothing runs a destructor, so a temporary file stays.         *)
(***************************************************************************)
Kill(p) ==
    /\ pc[p] \in OpenPcs \cup {"dispatch"} \cup SavePcs
    /\ LET fdN == [fd EXCEPT ![p] = NoIno]
           tmpN == [tmp EXCEPT ![p] = NoIno]
       IN  /\ fd' = fdN
           /\ tmp' = tmpN
           /\ inodes' = Gc(inodes, path, tmpN, fdN)
    /\ leaked' = IF tmp[p] # NoIno THEN leaked + 1 ELSE leaked
    /\ lock' = [lock EXCEPT ![p] = "none"]
    /\ buf' = [buf EXCEPT ![p] = <<>>]
    /\ pc' = [pc EXCEPT ![p] = IF pc[p] \in SavePcs THEN "killed_save" ELSE "killed"]
    /\ contacts' = Dropped(p)
    /\ pre' = [pre EXCEPT ![p] = NoPre]
    /\ UNCHANGED <<path, nextId, runs, call, ret>>

\* the process has exited and is reaped
Exit(p) ==
    /\ pc[p] \in EndPcs
    /\ pc' = [pc EXCEPT ![p] = "idle"]
    /\ pre' = [pre EXCEPT ![p] = NoPre]
    /\ UNCHANGED <<fsvars, contacts, fd, lock, buf, tmp, nextId, runs,
                   call, ret>>

Next ==
    \E p \in Procs :
        \/ Start(p)
        \/ OpenExists(p) \/ OpenFile(p) \/ OpenLock(p) \/ OpenRead(p)
        \/ OpenParse(p) \/ OpenFail(p)
        \/ CmdAdd(p) \/ CmdRemove(p) \/ CmdList(p) \/ CmdFind(p)
        \/ SaveMkdir(p) \/ SaveOpen(p) \/ SaveLock(p) \/ SaveDrop(p)
        \/ SaveTmp(p) \/ SaveWrite(p) \/ SaveFlush(p) \/ SaveChmod(p)
        \/ SaveSync(p) \/ SaveRename(p) \/ SaveFail(p)
        \/ Kill(p) \/ Exit(p)

Spec == Init /\ [][Next]_vars

\* one more invocation is started after the MaxRuns of Spec
StartLate(p) ==
    /\ pc[p] = "idle"
    /\ runs = MaxRuns
    /\ runs' = runs + 1
    /\ pc' = [pc EXCEPT ![p] = "open"]
    /\ UNCHANGED <<fsvars, contacts, fd, lock, buf, tmp, nextId, pre, call, ret>>

NextLate == Next \/ \E p \in Procs : StartLate(p)

SpecLate == Init /\ [][NextLate]_vars

\* the steps of an invocation that has started, when no I/O operation fails
\* and no process is killed
Run(p) ==
    \/ OpenExists(p) \/ OpenFile(p) \/ OpenLock(p) \/ OpenRead(p)
    \/ OpenParse(p)
    \/ CmdAdd(p) \/ CmdRemove(p) \/ CmdList(p) \/ CmdFind(p)
    \/ SaveMkdir(p) \/ SaveOpen(p) \/ SaveLock(p) \/ SaveDrop(p)
    \/ SaveTmp(p) \/ SaveWrite(p) \/ SaveFlush(p) \/ SaveChmod(p)
    \/ SaveSync(p) \/ SaveRename(p)

NextFair == \E p \in Procs : Start(p) \/ Run(p) \/ Exit(p)

\* the scheduler lets every process that can take a step take one, and the
\* kernel grants a lock that stays free to the process blocked on it
SpecFair ==
    Init /\ [][NextFair]_vars /\ \A p \in Procs : WF_vars(Run(p))

\* the invocations start on a path that holds no file
InitAbsent == Init /\ path = NoIno

SpecAbsent == InitAbsent /\ [][Next]_vars


(***************************************************************************)
(* Calls of the pure functions, each on inputs drawn from a bounded set.   *)
(***************************************************************************)
MaxPad == 1         \* whitespace characters around an input string
MaxLen == 3         \* records in a collection handed to Store::remove

\* a body of n characters c inside l leading and t trailing spaces
Padded(l, n, c, t) == Rep(l, Ch.sp) \o Rep(n, c) \o Rep(t, Ch.sp)

\* strings around the limit max: empty, at the limit, one over it, each with
\* and without surrounding whitespace, and strings of two-byte characters
TextsAround(max) ==
    {Padded(l, n, Ch.x, t) : l \in 0..MaxPad, t \in 0..MaxPad, n \in {0, max, max + 1}}
      \cup {Rep(max \div 2, Ch.eacute), Rep(max \div 2 + 1, Ch.eacute)}

NewCalls ==
    { [fn |-> "new", name |-> n, email |-> e, phone |-> ph] :
        n \in TextsAround(NameMax), e \in TextsAround(EmailMax),
        ph \in {None} \cup {Some(t) : t \in TextsAround(PhoneMax)} }

PureContacts ==
    { MkContact(UuidString(i), <<c>>, <<Ch.at>>, None) : i \in 1..2, c \in {Ch.a, Ch.b} }

SeqsUpTo(S, n) == UNION {[1..k -> S] : k \in 0..n}

RemoveCalls ==
    { [fn |-> "remove", cs |-> cs, id |-> UuidString(i)] :
        cs \in SeqsUpTo(PureContacts, MaxLen), i \in 1..3 }

\* the store variables while only a pure function is called
Quiet ==
    /\ path = NoIno
    /\ inodes = NoInodes
    /\ leaked = 0
    /\ pc = [p \in Procs |-> "idle"]
    /\ contacts = [p \in Procs |-> <<>>]
    /\ fd = [p \in Procs |-> NoIno]
    /\ lock = [p \in Procs |-> "none"]
    /\ buf = [p \in Procs |-> <<>>]
    /\ tmp = [p \in Procs |-> NoIno]
    /\ nextId = 1
    /\ runs = 0
    /\ pre = [p \in Procs |-> NoPre]

storevars == <<path, inodes, leaked, pc, contacts, fd, lock, buf, tmp,
               nextId, runs, pre>>

InitNew == Quiet /\ call \in NewCalls /\ ret = NoCall

\* Contact::new(name, email, phone)
CallNew ==
    /\ call.fn = "new"
    /\ ret = NoCall
    /\ ret' = [fn |-> "new",
               r |-> ContactNew(call.name, call.email, call.phone, UuidString(nextId))]
    /\ UNCHANGED <<storevars, call>>

SpecNew == InitNew /\ [][CallNew]_vars

InitRemove == Quiet /\ call \in RemoveCalls /\ ret = NoCall

\* store.remove(id)
CallRemove ==
    /\ call.fn = "remove"
    /\ ret = NoCall
    /\ ret' = [fn |-> "remove", r |-> StoreRemove(call.cs, call.id)]
    /\ UNCHANGED <<storevars, call>>

SpecRemove == InitRemove /\ [][CallRemove]_vars

\* records whose name, email and phone differ in case and in script
FindContacts ==
    { MkContact(UuidString(1), <<Ch.A, Ch.a>>, <<Ch.b, Ch.at>>, None),
      MkContact(UuidString(2), <<Ch.b>>, <<Ch.A, Ch.at>>, Some(<<Ch.one>>)),
      MkContact(UuidString(3), <<Gr.Alpha, Gr.Sigma>>, <<Ch.x, Ch.at>>, None),
      MkContact(UuidString(4), <<Ch.x>>, <<Ch.x, Ch.at>>, Some(<<Ch.a, Ch.one>>)) }

FindQueries ==
    { <<>>, <<Ch.A>>, <<Ch.a, Ch.A>>, <<Ch.at>>, <<Ch.one>>, <<Ch.B>>,
      <<Gr.Sigma>>, <<Gr.sigma>>, <<Gr.alpha, Gr.Sigma>> }

FindCalls ==
    { [fn |-> "find", cs |-> cs, q |-> q] :
        cs \in SeqsUpTo(FindContacts, MaxLen), q \in FindQueries }

InitFind == Quiet /\ call \in FindCalls /\ ret = NoCall

\* store.find(&query): the matches, and the collection after the call, which
\* find borrows immutably
CallFind ==
    /\ call.fn = "find"
    /\ ret = NoCall
    /\ ret' = [fn |-> "find",
               r |-> [found |-> StoreFind(call.cs, call.q), contacts |-> call.cs]]
    /\ UNCHANGED <<storevars, call>>

SpecFind == InitFind /\ [][CallFind]_vars


(***************************************************************************)
(* Properties.                                                             *)
(***************************************************************************)
\* the file under the canonical path is one that was committed there, with
\* the content it was committed with
PathCommitted ==
    path # NoIno =>
        /\ inodes[path].snap.some
        /\ inodes[path].content = inodes[path].snap.content

\* p takes a step
Steps(p) == pc'[p] # pc[p]

\* existence, content and permissions of the canonical path
PathState ==
    IF path = NoIno THEN [exists |-> FALSE, content |-> <<>>, mode |-> {}]
    ELSE [exists |-> TRUE, content |-> inodes[path].content,
          mode |-> inodes[path].mode]

\* C1: an open that found the path present has read the content of a
\* committed file (committed by a completed rename, or there from the
\* start), never the content of a file that a save has only created.
C1_OpenReadsCommitted ==
    \A p \in Procs :
        pc[p] = "o_parse" =>
            /\ inodes[fd[p]].snap.some
            /\ buf[p] = inodes[fd[p]].snap.content

\* C2: once an invocation has been killed inside Store::save, the canonical
\* path is absent or holds a committed file with its committed content.
C2_KilledSaveLeavesCommitted ==
    (\E p \in Procs : pc[p] = "killed_save") => PathCommitted

\* C3: when Store::save was entered on an existing file and has returned an
\* error, and no other save has replaced the file meanwhile, the file has
\* the content it had on entry.
C3_FailedSaveKeepsFile ==
    \A p \in Procs :
        (pc[p] = "err_save" /\ pre[p].exists /\ ~pre[p].replaced) =>
            /\ path # NoIno
            /\ inodes[path].content = pre[p].content

C3_Witness ==
    \E p \in Procs :
        /\ pc[p] = "err_save" /\ pre[p].exists /\ ~pre[p].replaced
        /\ pre[p].content # <<>>
        /\ Parse(pre[p].content).ok

\* C4: an open that reads the file a successful save committed parses it
\* into the collection that save serialized: same records, same fields,
\* same order.
C4_RoundTrip ==
    [][\A q \in Procs :
         ( /\ pc[q] = "o_parse"
           /\ Steps(q)
           /\ pc'[q] # "killed"
           /\ inodes[fd[q]].coll.some
           /\ inodes[fd[q]].snap.some )
         => /\ pc'[q] = "dispatch"
            /\ contacts'[q] = inodes[fd[q]].coll.contacts]_vars

C4_Witness ==
    \E q \in Procs :
        /\ pc[q] = "dispatch"
        /\ path # NoIno
        /\ inodes[path].coll.some
        /\ contacts[q] = inodes[path].coll.contacts
        /\ \E i, j \in DOMAIN contacts[q] :
             contacts[q][i].phone.some /\ ~contacts[q][j].phone.some

\* C5: while an invocation whose save succeeded has not exited, the file
\* under the canonical path has mode 0600.
C5_SavedFileMode ==
    \A p \in Procs :
        pc[p] = "saved" => (path # NoIno /\ inodes[path].mode = Mode0600)

C5_Witness ==
    \E p \in Procs : pc[p] = "saved" /\ runs = MaxRuns

\* C6: no invocation holds the exclusive lock while another invocation
\* holds a lock, shared or exclusive, taken through the same path.
C6_LockMutualExclusion ==
    \A p, q \in Procs :
        (p # q /\ lock[p] = "ex") => lock[q] = "none"

\* C7: when what open has read does not parse, the invocation ends with the
\* error without touching the canonical path, and from there it only exits.
C7_CorruptStoreAborts ==
    [][\A p \in Procs :
         /\ (pc[p] = "o_parse" /\ ~Parse(buf[p]).ok /\ Steps(p))
              => (pc'[p] \in {"err_open", "killed"} /\ PathState' = PathState)
         /\ (pc[p] = "err_open" /\ Steps(p))
              => (pc'[p] = "idle" /\ PathState' = PathState)]_vars

C7_Witness ==
    \E p \in Procs :
        /\ pc[p] = "err_open"
        /\ path # NoIno
        /\ inodes[path].content # <<>>
        /\ ~Parse(inodes[path].content).ok

\* C8: no step of Store::open changes the canonical path; on an absent path
\* open yields the empty collection; a command enters Store::save only
\* after it has changed the collection, and a command that ends without
\* saving leaves the canonical path as it was.
C8_NoSaveWithoutMutation ==
    [][\A p \in Procs :
         /\ (pc[p] \in OpenPcs /\ Steps(p)) => PathState' = PathState
         /\ (pc[p] = "open" /\ path = NoIno /\ Steps(p) /\ pc'[p] # "killed")
              => (pc'[p] = "dispatch" /\ contacts'[p] = <<>> /\ path' = NoIno)
         /\ (pc[p] = "dispatch" /\ Steps(p))
              => /\ PathState' = PathState
                 /\ pc'[p] \in SavePcs => contacts'[p] # contacts[p]
         /\ (pc[p] \in {"done", "err_valid"} /\ Steps(p))
              => (pc'[p] = "idle" /\ PathState' = PathState)]_vars

C8_Witness ==
    \E p \in Procs : pc[p] = "done" /\ path = NoIno /\ runs = 1

\* characters of a string
CharCount(s) == Len(s)

\* C9: Contact::new succeeds exactly when the trimmed name is non-empty and
\* at most 200 characters, the trimmed email non-empty and at most 320
\* characters and the trimmed phone, if any, at most 50 characters; on
\* success the record holds the trimmed values.
C9_NewValidatesTrimmed ==
    ret.fn = "new" =>
        LET name == Trim(call.name)
            email == Trim(call.email)
            valid == /\ name # <<>> /\ CharCount(name) <= NameMax
                     /\ email # <<>> /\ CharCount(email) <= EmailMax
                     /\ call.phone.some => CharCount(Trim(call.phone.v)) <= PhoneMax
        IN  /\ ret.r.ok <=> valid
            /\ ret.r.ok =>
                 /\ ret.r.c.name = name
                 /\ ret.r.c.email = email
                 /\ ret.r.c.phone.some = call.phone.some
                 /\ call.phone.some => ret.r.c.phone.v = Trim(call.phone.v)
            /\ ~ret.r.ok => ret.r.c = NoContact

\* the index in cs of the j-th record that id does not match
KeptIndex(cs, id, j) ==
    CHOOSE i \in DOMAIN cs :
        /\ cs[i].id # id
        /\ Cardinality({m \in 1..i : cs[m].id # id}) = j

\* C10: Store::remove deletes every record with the identifier, keeps the
\* others in their order, and returns true exactly when it deleted one.
C10_RemoveAllMatches ==
    ret.fn = "remove" =>
        LET cs == call.cs
            after == ret.r.contacts
            hits == {i \in DOMAIN cs : cs[i].id = call.id}
        IN  /\ ret.r.removed <=> hits # {}
            /\ Len(after) = Len(cs) - Cardinality(hits)
            /\ \A j \in DOMAIN after : after[j] = cs[KeptIndex(cs, call.id, j)]
            /\ hits = {} => after = cs

C10_Witness ==
    /\ ret.fn = "remove"
    /\ Cardinality({i \in DOMAIN call.cs : call.cs[i].id = call.id}) = 2
    /\ Len(ret.r.contacts) = 1

\* a character with its case removed: capitals become small letters and the
\* final sigma the ordinary one
FoldChar(c) == IF c = Gr.fsigma THEN Gr.sigma ELSE LowerChar(c)

CaseFold(s) == [i \in DOMAIN s |-> FoldChar(s[i])]

\* s contains q when case is ignored
ContainsIgnoringCase(s, q) == Contains(CaseFold(s), CaseFold(q))

\* C11: Store::find returns, in the original order, exactly the records
\* whose name or email contains the query case-insensitively (the phone does
\* not count); the empty query returns every record; the collection is the
\* same afterwards.
C11_FindCaseInsensitive ==
    ret.fn = "find" =>
        LET Hit(c) == \/ ContainsIgnoringCase(c.name, call.q)
                      \/ ContainsIgnoringCase(c.email, call.q)
        IN  /\ ret.r.found = SelectSeq(call.cs, Hit)
            /\ call.q = <<>> => ret.r.found = call.cs
            /\ ret.r.contacts = call.cs

\* p takes the rename step of Store::save
Renames(p) == pc[p] = "s_rename" /\ pc'[p] = "saved"

\* C12: a step of Store::save other than the rename leaves the existence,
\* the content and the permission bits of the canonical path unchanged,
\* whether or not a file is there.
C12_OnlyRenameChangesPath ==
    [][\A p \in Procs :
         (pc[p] \in SavePcs /\ Steps(p) /\ ~Renames(p))
            => PathState' = PathState]_vars

\* C13: starting from an absent path, a file under the canonical path never
\* grants access to group or others.
C13_NoPermissiveWindow ==
    path # NoIno => inodes[path].mode \subseteq Mode0600

\* the steps of Store::save in the order of the code
SaveOrder == <<"s_mkdir", "s_open", "s_lock", "s_drop", "s_tmp", "s_write",
               "s_flush", "s_chmod", "s_sync", "s_rename">>

StepNo(l) == CHOOSE i \in DOMAIN SaveOrder : SaveOrder[i] = l

\* C14: the rename happens only with the whole serialized collection in the
\* temp file, synced, with mode 0600, and after the write, flush,
\* permission and sync steps in that order; a save that fails does not
\* rename, neither in the failing step nor afterwards.
C14_RenameAfterDurableWrite ==
    [][\A p \in Procs :
         /\ Renames(p) =>
               /\ inodes[tmp[p]].content = Serialize(contacts[p])
               /\ inodes[tmp[p]].synced
               /\ inodes[tmp[p]].mode = Mode0600
         /\ (pc[p] \in SavePcs /\ pc'[p] \in SavePcs /\ Steps(p))
               => StepNo(pc'[p]) = StepNo(pc[p]) + 1
         /\ (pc[p] \in SavePcs /\ pc'[p] = "err_save") => path' = path
         /\ (pc[p] = "err_save" /\ Steps(p))
               => (pc'[p] = "idle" /\ path' = path)
         /\ (path' # path /\ path' \in {tmp[q] : q \in Procs})
               => \E q \in Procs : Renames(q) /\ path' = tmp[q]]_vars

C14_Witness ==
    \E p \in Procs :
        /\ pc[p] = "saved"
        /\ inodes[path].synced
        /\ inodes[path].mode = Mode0600
        /\ Len(inodes[path].coll.contacts) = 2
        /\ inodes[path].content = Serialize(inodes[path].coll.contacts)

\* the part of Store::save between the release of the lock and the rename
Window == {"s_tmp", "s_write", "s_flush", "s_chmod", "s_sync", "s_rename"}

\* C15: two saves can be between lock release and rename at once; neither
\* holds a lock there, each has a temp file of its own, the rename of one
\* installs its complete collection and leaves the other save and its temp
\* file as they were, so that the file always holds the complete
\* collection of the last rename.
C15_RacingSavesLastWins ==
    [][/\ \A p \in Procs :
            Renames(p) =>
                /\ path' = tmp[p]
                /\ PathState'.content = Serialize(contacts[p])
       /\ \A p \in Procs : \A q \in Procs \ {p} :
            (pc[p] \in Window /\ pc[q] \in Window) =>
                /\ lock[p] = "none" /\ lock[q] = "none"
                /\ (tmp[p] # NoIno /\ tmp[q] # NoIno) => tmp[p] # tmp[q]
                /\ Renames(p) =>
                      /\ pc'[q] = pc[q]
                      /\ tmp'[q] = tmp[q]
                      /\ contacts'[q] = contacts[q]
                      /\ tmp[q] # NoIno => inodes'[tmp[q]] = inodes[tmp[q]]
       /\ (path # NoIno /\ inodes[path].coll.some /\ ~\E p \in Procs : Renames(p))
            => (path' = path /\ PathState' = PathState)
       /\ (path' # NoIno /\ inodes'[path'].coll.some)
            => inodes'[path'].content = Serialize(inodes'[path'].coll.contacts)]_vars

C15_Witness ==
    \E p \in Procs : \E q \in Procs \ {p} :
        /\ pc[p] = "s_rename" /\ pc[q] = "s_rename"
        /\ inodes[tmp[p]].content # inodes[tmp[q]].content
        /\ path # NoIno /\ inodes[path].snap.some

\* the identifiers of the records of a collection
Ids(cs) == {cs[i].id : i \in DOMAIN cs}

\* cs with one record appended, or with some records taken out
Mutated(cs, after) ==
    \/ Len(after) = Len(cs) + 1 /\ SubSeq(after, 1, Len(cs)) = cs
    \/ /\ Len(after) < Len(cs)
       /\ \E id \in Ids(cs) :
            after = SelectSeq(cs, LAMBDA c : c.id # id)

\* C16: last writer wins.  A command loads the content of a file that was
\* committed (so it sees another command's change only if that command's
\* rename came before the read), changes what it loaded, never looks at the
\* file again during its save, and its rename installs exactly its own
\* collection, also when another save has replaced the file in between.
C16_LastWriterWins ==
    [][\A q \in Procs :
         /\ (pc[q] = "o_parse" /\ pc'[q] = "dispatch")
               => /\ inodes[fd[q]].snap.some
                  /\ Serialize(contacts'[q]) = inodes[fd[q]].snap.content
         /\ (pc[q] = "dispatch" /\ pc'[q] \in SavePcs)
               => Mutated(contacts[q], contacts'[q])
         /\ (pc[q] \in SavePcs /\ pc'[q] \in SavePcs)
               => contacts'[q] = contacts[q]
         /\ Renames(q)
               => /\ inodes'[path'].coll.some
                  /\ inodes'[path'].coll.contacts = contacts[q]
                  /\ inodes'[path'].content = Serialize(contacts[q])]_vars

\* two adds were both saved and the file lacks the record of one of them
C16_Witness ==
    \E p \in Procs : \E q \in Procs \ {p} :
        /\ pc[p] = "saved" /\ pc[q] = "saved"
        /\ nextId = 3
        /\ ~({UuidString(1), UuidString(2)} \subseteq Ids(inodes[path].coll.contacts))

\* positions at which neither Store::open nor Store::save is between its
\* open of the backing file and the close of that handle
Returned == {"idle", "dispatch", "err_open", "done", "err_valid", "s_mkdir",
             "s_open", "saved", "err_save"}

\* C17: once Store::open or Store::save has returned, with success or with
\* an error, the invocation holds no lock and no open handle of the backing
\* file; a lock is only ever held through an open handle.
C17_NoLockAfterReturn ==
    \A p \in Procs :
        /\ pc[p] \in Returned => (fd[p] = NoIno /\ lock[p] = "none")
        /\ lock[p] # "none" => fd[p] # NoIno

\* an open and a save have both returned an error, and another lock can
\* be taken on the file
C17_Witness ==
    \E p \in Procs : \E q \in Procs \ {p} :
        /\ pc[p] = "err_open" /\ pc[q] = "err_save"
        /\ path # NoIno
        /\ \A r \in Procs : lock[r] = "none"

\* the records of cs have pairwise distinct identifiers
DistinctIds(cs) ==
    \A i, j \in DOMAIN cs : i # j => cs[i].id # cs[j].id

\* an inode that was committed under the path and parses holds records
\* with pairwise distinct identifiers
DistinctFile(f) ==
    f.snap.some =>
        LET r == Parse(f.content)
        IN  r.ok => DistinctIds(r.contacts)

\* every collection in memory, and every committed file content, has
\* pairwise distinct identifiers
AllDistinct ==
    /\ \A p \in Procs : DistinctIds(contacts[p])
    /\ \A i \in DOMAIN inodes : DistinctFile(inodes[i])

\* C18: with fresh identifiers from Contact::new, the collections in memory
\* and the committed file contents keep pairwise distinct identifiers under
\* every interleaving of the commands (they have them at the start, and
\* every step that changes a collection or a file leaves what it changed
\* with distinct identifiers); add appends its record whatever the names
\* and emails already in the collection.
C18_UniqueIds ==
    /\ AllDistinct
    /\ [][/\ \A p \in Procs :
              contacts'[p] # contacts[p] => DistinctIds(contacts'[p])
         /\ \A i \in DOMAIN inodes' :
              (i \notin DOMAIN inodes \/ inodes'[i] # inodes[i])
                 => DistinctFile(inodes'[i])
         /\ \A p \in Procs :
              (pc[p] = "dispatch" /\ Steps(p) /\ nextId' # nextId)
                 => /\ Len(contacts'[p]) = Len(contacts[p]) + 1
                    /\ SubSeq(contacts'[p], 1, Len(contacts[p])) = contacts[p]
                    /\ contacts'[p][Len(contacts'[p])].id = UuidString(nextId)]_vars

\* the committed file holds two records with the same name and email
C18_Witness ==
    /\ path # NoIno
    /\ inodes[path].coll.some
    /\ \E i, j \in DOMAIN inodes[path].coll.contacts :
         /\ i # j
         /\ inodes[path].coll.contacts[i].name = inodes[path].coll.contacts[j].name
         /\ inodes[path].coll.contacts[i].email = inodes[path].coll.contacts[j].email
         /\ inodes[path].coll.contacts[i].id # inodes[path].coll.contacts[j].id

\* C20: a save that returns an error has deleted its temp file; the files
\* in the directory are the one under the canonical path, files held open
\* and the temp files of saves still running; a temp file is left behind
\* only by a step that kills an invocation inside Store::save.
C20_FailedSaveDeletesTemp ==
    [][/\ \A p \in Procs :
            (pc[p] \in SavePcs /\ pc'[p] = "err_save") =>
                /\ tmp'[p] = NoIno
                /\ tmp[p] # NoIno => tmp[p] \notin DOMAIN inodes'
                /\ leaked' = leaked
       /\ \A p \in Procs : pc'[p] \notin SavePcs => tmp'[p] = NoIno
       /\ DOMAIN inodes' \subseteq
             {path'} \cup {fd'[q] : q \in Procs}
                     \cup {tmp'[q] : q \in {r \in Procs : pc'[r] \in SavePcs}}
       /\ leaked' # leaked =>
             \E p \in Procs :
                 /\ pc[p] \in Window \ {"s_tmp"}
                 /\ pc'[p] = "killed_save"
                 /\ leaked' = leaked + 1]_vars

\* a save failed after it had created its temp file, and the directory
\* holds nothing but the file under the canonical path
C20_Witness ==
    \E p \in Procs :
        /\ pc[p] = "err_save"
        /\ pre[p].hadTmp
        /\ tmp[p] = NoIno
        /\ leaked = 0
        /\ path # NoIno
        /\ DOMAIN inodes = {path}

\* positions at which an invocation blocks until a lock is granted
LockWaits == {"o_lock", "s_lock"}

\* C19: without I/O failures and under fair scheduling, an invocation that
\* holds a lock is never at a position where it waits for one, an
\* invocation leaves a position where it waits for a lock only with the
\* lock granted, and eventually every invocation that was started has
\* terminated (so none stays blocked on a lock).
C19_NoDeadlockNoStarvation ==
    /\ [](\A p \in Procs :
            lock[p] # "none" => pc[p] \in {"o_read", "o_parse", "s_drop"})
    /\ [][\A p \in Procs :
            (pc[p] \in LockWaits /\ Steps(p)) => lock'[p] # "none"]_vars
    /\ <>[](\A p \in Procs : pc[p] \in {"idle"} \cup EndPcs)

\* an invocation is blocked: another one holds a lock of the file it wants
\* to lock exclusively
C19_Witness ==
    \E p \in Procs : \E q \in Procs \ {p} :
        /\ pc[p] = "s_lock"
        /\ fd[q] = fd[p]
        /\ lock[q] # "none"

=============================================================================
